---------------------------- MODULE Spec2Model ----------------------------
(***************************************************************************)
(* Subscription backend (src/server.js): the users table, the signup,      *)
(* listing (lazy expiry), status-update and deletion handlers, and the     *)
(* daily reminder job, together with the date arithmetic each of them      *)
(* performs.                                                               *)
(*                                                                         *)
(* Time.  A timestamp is a number of slots since 1970-01-01T00:00 in the   *)
(* server's time zone; a day has SlotsPerDay slots.  The zone is taken to  *)
(* have no daylight-saving shifts, so every day has the same length.       *)
(* Plan names are sequences of one-character strings, so that              *)
(* String.prototype.includes is a real substring search.                   *)
(***************************************************************************)
EXTENDS Integers, Sequences, FiniteSets, TLC

(***************************************************************************)
(* Plan names and the keywords the handlers look for.                      *)
(***************************************************************************)
KwMonthly == <<"M","o","n","t","h","l","y">>
Kw6Month == <<"6","-","M","o","n","t","h">>
KwYearly == <<"Y","e","a","r","l","y">>
FreeTrial == <<"F","r","e","e"," ","T","r","i","a","l">>

PlanMonthly == KwMonthly \o <<" ","P","l","a","n">>
Plan6Month == Kw6Month \o <<" ","P","l","a","n">>
PlanYearly == KwYearly \o <<" ","P","l","a","n">>
PlanBasic == <<"B","a","s","i","c">>
Plan6Monthly == <<"6","-","M","o","n","t","h","l","y">>
PlanFreeTrialVip == FreeTrial \o <<" ","V","I","P">>

\* every plan name the pure-function specifications draw from
AllPlans ==
  {PlanMonthly, Plan6Month, PlanYearly, FreeTrial, PlanBasic, Plan6Monthly,
   PlanFreeTrialVip}

\* String.prototype.includes
Includes(s, sub) ==
  \E i \in 0..(Len(s) - Len(sub)) : SubSeq(s, i + 1, i + Len(sub)) = sub

(***************************************************************************)
(* Calendar arithmetic of the Date object (ECMAScript Day/MakeDay) and of  *)
(* moment.  Months are 0-based, as in both libraries.                      *)
(***************************************************************************)
SlotsPerDay == 2

IsLeap(y) == (y % 4 = 0) /\ ((y % 100 # 0) \/ (y % 400 = 0))

DaysInMonth(y, m) ==
  IF m = 1 THEN (IF IsLeap(y) THEN 29 ELSE 28)
  ELSE IF m \in {3, 5, 8, 10} THEN 30 ELSE 31

\* day number of January 1st of year y (ECMAScript DayFromYear)
DayFromYear(y) ==
  365 * (y - 1970) + ((y - 1969) \div 4) - ((y - 1901) \div 100)
    + ((y - 1601) \div 400)

RECURSIVE DaysBeforeMonth(_, _)
DaysBeforeMonth(y, m) ==
  IF m = 0 THEN 0 ELSE DaysBeforeMonth(y, m - 1) + DaysInMonth(y, m - 1)

\* ECMAScript MakeDay: month and date may exceed their ranges and roll over
MakeDay(y, m, dt) ==
  LET ym == y + (m \div 12)
      mn == m % 12
  IN  DayFromYear(ym) + DaysBeforeMonth(ym, mn) + dt - 1

YearFromDay(d) ==
  CHOOSE y \in (1970 + (d \div 366))..(1971 + (d \div 365)) :
    DayFromYear(y) <= d /\ d < DayFromYear(y + 1)

MonthFromDay(d) ==
  LET y == YearFromDay(d)
      k == d - DayFromYear(y)
  IN  CHOOSE m \in 0..11 :
        DaysBeforeMonth(y, m) <= k /\ k < DaysBeforeMonth(y, m) + DaysInMonth(y, m)

DateFromDay(d) ==
  LET y == YearFromDay(d)
  IN  d - DayFromYear(y) - DaysBeforeMonth(y, MonthFromDay(d)) + 1

DayOf(ts) == ts \div SlotsPerDay
TimeInDay(ts) == ts % SlotsPerDay

\* moment(x).startOf("day") and Date.setHours(0, 0, 0, 0)
StartOfDay(ts) == ts - TimeInDay(ts)

\* Date.setMonth(getMonth() + n): the day of month is kept and overflows
JsAddMonths(ts, n) ==
  LET d == DayOf(ts)
  IN  MakeDay(YearFromDay(d), MonthFromDay(d) + n, DateFromDay(d)) * SlotsPerDay
        + TimeInDay(ts)

\* Date.setFullYear(getFullYear() + n)
JsAddYears(ts, n) ==
  LET d == DayOf(ts)
  IN  MakeDay(YearFromDay(d) + n, MonthFromDay(d), DateFromDay(d)) * SlotsPerDay
        + TimeInDay(ts)

Min(a, b) == IF a < b THEN a ELSE b

\* moment.add(n, "months"): the day of month is clamped to the target month
MomentAddMonths(ts, n) ==
  LET d == DayOf(ts)
      y == YearFromDay(d)
      m == MonthFromDay(d) + n
      ty == y + (m \div 12)
      tm == m % 12
  IN  MakeDay(ty, tm, Min(DateFromDay(d), DaysInMonth(ty, tm))) * SlotsPerDay
        + TimeInDay(ts)

\* moment.add(n, "years") is an addition of 12 * n months
MomentAddYears(ts, n) == MomentAddMonths(ts, 12 * n)

\* moment.add(n, "days")
MomentAddDays(ts, n) == ts + n * SlotsPerDay


(***************************************************************************)
(* Due dates, as each call site derives them.                              *)
(***************************************************************************)
\* `let dueDate;` left unassigned (undefined)
NoDate == -1

\* GET /get-users: the due date of one row of the result
ListingDueDateAnyFree(user) ==
  LET updatedAt == StartOfDay(user.updated_at)
  IN  IF user.status = "Free" THEN MomentAddDays(updatedAt, 7)
      ELSE IF user.status # "paid" THEN NoDate
      ELSE IF Includes(user.plan, KwMonthly) THEN MomentAddMonths(updatedAt, 1)
      ELSE IF Includes(user.plan, Kw6Month) THEN MomentAddMonths(updatedAt, 6)
      ELSE IF Includes(user.plan, KwYearly) THEN MomentAddYears(updatedAt, 1)
      ELSE NoDate
ListingDueDate(user) ==
  LET updatedAt == StartOfDay(user.updated_at)
      paidDue ==
        IF user.status = "paid"
          THEN IF Includes(user.plan, KwMonthly) THEN MomentAddMonths(updatedAt, 1)
               ELSE IF Includes(user.plan, Kw6Month) THEN MomentAddMonths(updatedAt, 6)
               ELSE IF Includes(user.plan, KwYearly) THEN MomentAddYears(updatedAt, 1)
               ELSE NoDate
          ELSE NoDate
  IN  IF user.status = "Free" /\ user.plan = FreeTrial
        THEN MomentAddDays(updatedAt, 7)
        ELSE paidDue

\* GET /get-users: `dueDate && dueDate.isBefore(currentDate)`
HasLapsedOrSame(user, currentDate) ==
  ListingDueDate(user) # NoDate /\ ListingDueDate(user) <= currentDate
HasLapsed(user, currentDate) ==
  ListingDueDate(user) # NoDate /\ ListingDueDate(user) < currentDate

\* PUT /update-status: getPlanDuration
GetPlanDuration(plan) ==
  IF Includes(plan, KwMonthly) THEN [months |-> 1, years |-> 0]
  ELSE IF Includes(plan, Kw6Month) THEN [months |-> 6, years |-> 0]
  ELSE IF Includes(plan, KwYearly) THEN [months |-> 0, years |-> 1]
  ELSE [months |-> 0, years |-> 0]

\* PUT /update-status: endDate of the validity window announced by mail
ValidityEnd(status, plan, today) ==
  LET duration == GetPlanDuration(plan)
      afterMonths ==
        IF duration.months # 0 THEN JsAddMonths(today, duration.months) ELSE today
  IN  IF status = "paid"
        THEN IF duration.years # 0 THEN JsAddYears(afterMonths, duration.years)
             ELSE afterMonths
        ELSE today

\* sendReminderEmails: endDate of one paid row
ReminderEndDate(user) ==
  LET startDate == StartOfDay(user.updated_at)
  IN  IF Includes(user.plan, KwMonthly) THEN JsAddMonths(startDate, 1)
      ELSE IF Includes(user.plan, Kw6Month) THEN JsAddMonths(startDate, 6)
      ELSE IF Includes(user.plan, KwYearly) THEN JsAddYears(startDate, 1)
      ELSE startDate

\* sendReminderEmails: diffInDays === 2, diffInDays a quotient of times
ReminderDue(user, today) ==
  LET diffInTime == ReminderEndDate(user) - today
  IN  diffInTime % SlotsPerDay = 0 /\ diffInTime \div SlotsPerDay = 2

\* POST /submit-user: the status a new subscriber is stored with
InvoiceStatusByKeyword(plan) == IF Includes(plan, FreeTrial) THEN "Free" ELSE "pending"
InvoiceStatusFor(plan) == IF plan = FreeTrial THEN "Free" ELSE "pending"


(***************************************************************************)
(* State.                                                                  *)
(***************************************************************************)
MaxUsers == 1
MaxTicks == 3
MaxInFlight == 2

VARIABLES
  now,      \* the server clock, in slots
  users,    \* the users table: id -> row, or NoRow
  nextId,   \* AUTO_INCREMENT counter of the users table
  get,      \* the GET /get-users request in flight
  put,      \* the PUT /update-status/:id request in flight
  sub,      \* the POST /submit-user requests in flight, by connection
  del,      \* the DELETE /delete-user/:id request in flight
  job,      \* the run of sendReminderEmails
  lastCron, \* the day of the last firing of the 9:00 schedule
  resp,     \* what the last step sent: an HTTP response or the job's final log
  calc,     \* the end dates of one subscription, as the three call sites derive them
  blog,     \* the POST /add-blog, PUT /update-blog/:id or DELETE /delete-blog/:id
            \* request in flight
  blogs     \* the tables blogs and blog_sections

vars == <<now, users, nextId, get, put, sub, del, job, lastCron, resp, calc, blog, blogs>>

Ids == 1..MaxUsers
NoRow == [absent |-> TRUE]
NoBody == <<>>
NoMail == [to |-> <<>>, subject |-> "", sent |-> FALSE]
NoCalc == [plan |-> <<>>, start |-> 0, listing |-> 0, update |-> 0, reminder |-> 0]

\* the k-th e-mail address and phone number
Email(k) == <<"user", k, "@x.io">>
Phone(k) == <<"555", k>>
\* req.body.email and req.body.phone of POST /submit-user
Contacts == {<<Email(1), Phone(1)>>, <<Email(2), Phone(2)>>, <<Email(1), Phone(2)>>}
Tokens == {"none", "bad", "good"}
\* req.body.status of PUT /update-status: any string, or missing
StatusInputs == {"", "paid", "pending", "Free", "cancelled"}
\* req.body.plan of POST /submit-user
SignupPlans == {<<>>, PlanMonthly, FreeTrial, PlanFreeTrialVip}

Present(table) == {id \in DOMAIN table : table[id] # NoRow}

\* the hour of the schedule "0 9 * * *", as a slot of the day
CronHour == 9
CronSlot == (CronHour * SlotsPerDay) \div 24

StartDay == MakeDay(2024, 1, 29)
StartTime == StartDay * SlotsPerDay + CronSlot

GetIdle == [pc |-> "idle", tok |-> "", updates |-> {}, currentDate |-> 0]
PutIdle == [pc |-> "idle", tok |-> "", id |-> 0, status |-> "", plan |-> <<>>,
            email |-> <<>>, mail |-> NoMail]
SubIdle == [pc |-> "idle", email |-> <<>>, phone |-> <<>>, plan |-> <<>>, status |-> "",
            id |-> 0]
\* n connections on which POST /submit-user arrives, none with a request
SubsIdle(n) == [s \in 1..n |-> SubIdle]
DelIdle == [pc |-> "idle", tok |-> "", id |-> 0, email |-> <<>>]
JobIdle == [pc |-> "idle", rows |-> <<>>, i |-> 0, today |-> 0, attempted |-> {},
            failed |-> {}, upcoming |-> {}, summary |-> "none"]

MaxBlogs == 1
BlogIds == 1..MaxBlogs
\* req.body.title and req.body.sections: a body lists the headings of the
\* sections it keeps (sent with their ids) and of those it adds (without id)
BlogTitles == {"", "News"}
BlogBodies == {[keep |-> {}, new |-> {}], [keep |-> {"h1"}, new |-> {"h1"}]}
BlogRoutes == {"add-blog", "update-blog", "delete-blog"}
BlogIdle == [pc |-> "idle", tok |-> "", route |-> "none", id |-> 0, title |-> "",
             keep |-> {}, new |-> {}]
\* blogs: id -> title, blog_sections: blog id -> headings, and AUTO_INCREMENT
NoBlogs == [rows |-> [id \in BlogIds |-> NoRow], sections |-> [id \in BlogIds |-> {}],
            next |-> 1]
OneBlog == [rows |-> [id \in BlogIds |-> IF id = 1 THEN [title |-> "News"] ELSE NoRow],
            sections |-> [id \in BlogIds |-> IF id = 1 THEN {"h1"} ELSE {}],
            next |-> 2]

\* tok: the Authorization header of the request, when the answer is given
\* before any statement of the handler
Reply(route, code) ==
  [route |-> route, code |-> code, users |-> NoBody, today |-> 0, id |-> 0,
   mail |-> NoMail, tok |-> ""]
NoResp == Reply("none", 0)

InFlight ==
  Cardinality({r \in {<<"get", get.pc>>, <<"put", put.pc>>, <<"blog", blog.pc>>,
                      <<"del", del.pc>>, <<"job", job.pc>>} : r[2] # "idle"})
  + Cardinality({s \in DOMAIN sub : sub[s].pc # "idle"})

(***************************************************************************)
(* The users table.  updated_at is maintained by the database: it is set   *)
(* when the row is inserted and whenever an UPDATE changes the row.        *)
(***************************************************************************)
DbInsertRow(email, phone, plan, status, ts) ==
  [plan |-> plan, status |-> status, updated_at |-> ts, email |-> email,
   phone |-> phone]

DbSetStatus(row, status, ts) ==
  IF row.status = status THEN row
  ELSE [row EXCEPT !.status = status, !.updated_at = ts]

\* verifyToken: 0 stands for next()
VerifyTokenDecodeOnly(tok) == IF tok = "none" THEN 401 ELSE 0
VerifyToken(tok) ==
  IF tok = "none" THEN 401 ELSE IF tok = "bad" THEN 400 ELSE 0

(***************************************************************************)
(* GET /get-users.  Each action is one database statement together with    *)
(* the callback that receives its result; ok = FALSE is a database error.  *)
(***************************************************************************)
GetStart(tok) ==
  /\ get.pc = "idle"
  /\ InFlight < MaxInFlight
  /\ IF VerifyToken(tok) # 0
       THEN /\ resp' = [Reply("get-users", VerifyToken(tok)) EXCEPT !.tok = tok]
            /\ UNCHANGED get
       ELSE /\ get' = [GetIdle EXCEPT !.pc = "query", !.tok = tok]
            /\ resp' = NoResp
  /\ UNCHANGED <<now, users, nextId, put, sub, del, job, lastCron, calc, blog, blogs>>

\* the ids collected by results.forEach
LapsedIds(results, currentDate) ==
  {id \in Present(results) : HasLapsed(results[id], currentDate)}

GetScan(ok) ==
  /\ get.pc = "query"
  /\ IF ~ok
       THEN /\ resp' = Reply("get-users", 500)
            /\ get' = GetIdle
       ELSE LET currentDate == StartOfDay(now)
                updates == LapsedIds(users, currentDate)
            IN  IF updates = {}
                  THEN /\ resp' = [Reply("get-users", 200) EXCEPT
                                     !.users = users, !.today = currentDate]
                       /\ get' = GetIdle
                  ELSE /\ get' = [get EXCEPT !.pc = "update", !.updates = updates,
                                             !.currentDate = currentDate]
                       /\ resp' = NoResp
  /\ UNCHANGED <<now, users, nextId, put, sub, del, job, lastCron, calc, blog, blogs>>

\* UPDATE users SET invoice_status = 'pending' WHERE id IN (updates)
BulkSetPendingNone(table, updates, ts) == table
BulkSetPending(table, updates, ts) ==
  [id \in DOMAIN table |->
     IF id \in updates /\ table[id] # NoRow
       THEN DbSetStatus(table[id], "pending", ts)
       ELSE table[id]]

GetUpdate(ok) ==
  /\ get.pc = "update"
  /\ IF ~ok
       THEN /\ resp' = Reply("get-users", 500)
            /\ get' = GetIdle
            /\ UNCHANGED users
       ELSE /\ users' = BulkSetPending(users, get.updates, now)
            /\ get' = [get EXCEPT !.pc = "requery"]
            /\ resp' = NoResp
  /\ UNCHANGED <<now, nextId, put, sub, del, job, lastCron, calc, blog, blogs>>

GetRequery(ok) ==
  /\ get.pc = "requery"
  /\ resp' = IF ok
               THEN [Reply("get-users", 200) EXCEPT
                       !.users = users, !.today = get.currentDate]
               ELSE Reply("get-users", 500)
  /\ get' = GetIdle
  /\ UNCHANGED <<now, users, nextId, put, sub, del, job, lastCron, calc, blog, blogs>>


(***************************************************************************)
(* PUT /update-status/:id                                                  *)
(***************************************************************************)
PutStart(tok, id, status) ==
  /\ put.pc = "idle"
  /\ InFlight < MaxInFlight
  /\ IF VerifyToken(tok) # 0
       THEN /\ resp' = [Reply("update-status", VerifyToken(tok)) EXCEPT !.tok = tok]
            /\ UNCHANGED put
       ELSE IF status = ""
         THEN /\ resp' = [Reply("update-status", 400) EXCEPT !.tok = tok]
              /\ UNCHANGED put
         ELSE /\ put' = [PutIdle EXCEPT !.pc = "select", !.tok = tok, !.id = id,
                                        !.status = status]
              /\ resp' = NoResp
  /\ UNCHANGED <<now, users, nextId, get, sub, del, job, lastCron, calc, blog, blogs>>

\* SELECT name, plan, email FROM users WHERE id = ?
PutSelect(ok) ==
  /\ put.pc = "select"
  /\ IF ~ok
       THEN /\ resp' = Reply("update-status", 500)
            /\ put' = PutIdle
       ELSE IF users[put.id] = NoRow
         THEN /\ resp' = [Reply("update-status", 404) EXCEPT !.id = put.id]
              /\ put' = PutIdle
         ELSE /\ put' = [put EXCEPT !.pc = "update", !.plan = users[put.id].plan,
                                    !.email = users[put.id].email]
              /\ resp' = NoResp
  /\ UNCHANGED <<now, users, nextId, get, sub, del, job, lastCron, calc, blog, blogs>>

\* the mail of step 4: subject and html are set for 'paid' alone,
\* transporter.sendMail is called for every status
StatusMailSubject(status) ==
  IF status = "paid" THEN "Your Payment is Confirmed!" ELSE "undefined"

\* UPDATE users SET invoice_status = ? WHERE id = ?
PutUpdate(ok) ==
  /\ put.pc = "update"
  /\ IF ~ok
       THEN /\ resp' = Reply("update-status", 500)
            /\ put' = PutIdle
            /\ UNCHANGED users
       ELSE IF users[put.id] = NoRow
         THEN /\ resp' = [Reply("update-status", 404) EXCEPT !.id = put.id]
              /\ put' = PutIdle
              /\ UNCHANGED users
         ELSE /\ users' = [users EXCEPT
                             ![put.id] = DbSetStatus(users[put.id], put.status, now)]
              /\ put' = [put EXCEPT
                           !.pc = "mail",
                           !.mail = [to |-> put.email,
                                     subject |-> StatusMailSubject(put.status),
                                     sent |-> FALSE]]
              /\ resp' = NoResp
  /\ UNCHANGED <<now, nextId, get, sub, del, job, lastCron, calc, blog, blogs>>

\* the status of the response that follows `await transporter.sendMail`
CodeAfterMailStrict(sent) == IF sent THEN 200 ELSE 500
CodeAfterMail(sent) == 200

PutMail(sent) ==
  /\ put.pc = "mail"
  /\ resp' = [Reply("update-status", CodeAfterMail(sent)) EXCEPT
                !.id = put.id, !.mail = [put.mail EXCEPT !.sent = sent]]
  /\ put' = PutIdle
  /\ UNCHANGED <<now, users, nextId, get, sub, del, job, lastCron, calc, blog, blogs>>

(***************************************************************************)
(* POST /submit-user                                                       *)
(***************************************************************************)
\* SELECT email, phone FROM users WHERE email = ? OR phone = ?
Registered(table, email, phone) ==
  {id \in Present(table) : table[id].email = email \/ table[id].phone = phone}

\* wellFormed: the express-validator checks of email, phone, name and Price
SubStart(s, wellFormed, email, phone, plan) ==
  /\ sub[s].pc = "idle"
  /\ InFlight < MaxInFlight
  /\ nextId \in DOMAIN users \/ Registered(users, email, phone) # {}
  /\ IF ~wellFormed \/ plan = <<>>
       THEN /\ resp' = Reply("submit-user", 400)
            /\ UNCHANGED sub
       ELSE /\ sub' = [sub EXCEPT ![s] = [SubIdle EXCEPT !.pc = "check", !.email = email,
                                                         !.phone = phone, !.plan = plan]]
            /\ resp' = NoResp
  /\ UNCHANGED <<now, users, nextId, get, put, del, job, lastCron, calc, blog, blogs>>

\* the requests that have passed the check and not yet inserted
AboutToInsert == {s \in DOMAIN sub : sub[s].pc = "insert"}

SubCheck(s, ok) ==
  /\ sub[s].pc = "check"
  /\ IF ~ok
       THEN /\ resp' = Reply("submit-user", 500)
            /\ sub' = [sub EXCEPT ![s] = SubIdle]
       ELSE IF Registered(users, sub[s].email, sub[s].phone) # {}
         THEN /\ resp' = Reply("submit-user", 400)
              /\ sub' = [sub EXCEPT ![s] = SubIdle]
         ELSE /\ nextId + Cardinality(AboutToInsert) \in DOMAIN users
              /\ sub' = [sub EXCEPT ![s].pc = "insert",
                                    ![s].status = InvoiceStatusFor(sub[s].plan)]
              /\ resp' = NoResp
  /\ UNCHANGED <<now, users, nextId, get, put, del, job, lastCron, calc, blog, blogs>>

\* INSERT INTO users (...) VALUES (...)
SubInsert(s, ok) ==
  /\ sub[s].pc = "insert"
  /\ IF ~ok
       THEN /\ resp' = Reply("submit-user", 500)
            /\ sub' = [sub EXCEPT ![s] = SubIdle]
            /\ UNCHANGED <<users, nextId>>
       ELSE /\ users' = [users EXCEPT
                           ![nextId] = DbInsertRow(sub[s].email, sub[s].phone,
                                                   sub[s].plan, sub[s].status, now)]
            /\ nextId' = nextId + 1
            /\ sub' = [sub EXCEPT ![s].pc = "mail", ![s].id = nextId]
            /\ resp' = NoResp
  /\ UNCHANGED <<now, get, put, del, job, lastCron, calc, blog, blogs>>

SubMail(s, sent) ==
  /\ sub[s].pc = "mail"
  /\ resp' = [Reply("submit-user", CodeAfterMail(sent)) EXCEPT
                !.id = sub[s].id,
                !.mail = [to |-> sub[s].email,
                          subject |-> "Thank you for your purchase!",
                          sent |-> sent]]
  /\ sub' = [sub EXCEPT ![s] = SubIdle]
  /\ UNCHANGED <<now, users, nextId, get, put, del, job, lastCron, calc, blog, blogs>>

(***************************************************************************)
(* DELETE /delete-user/:id                                                 *)
(***************************************************************************)
DelStart(tok, id) ==
  /\ del.pc = "idle"
  /\ InFlight < MaxInFlight
  /\ IF VerifyToken(tok) # 0
       THEN /\ resp' = [Reply("delete-user", VerifyToken(tok)) EXCEPT !.tok = tok]
            /\ UNCHANGED del
       ELSE /\ del' = [DelIdle EXCEPT !.pc = "select", !.tok = tok, !.id = id]
            /\ resp' = NoResp
  /\ UNCHANGED <<now, users, nextId, get, put, sub, job, lastCron, calc, blog, blogs>>

DelSelect(ok) ==
  /\ del.pc = "select"
  /\ IF ~ok
       THEN /\ resp' = Reply("delete-user", 500)
            /\ del' = DelIdle
       ELSE IF users[del.id] = NoRow
         THEN /\ resp' = [Reply("delete-user", 404) EXCEPT !.id = del.id]
              /\ del' = DelIdle
         ELSE /\ del' = [del EXCEPT !.pc = "delete", !.email = users[del.id].email]
              /\ resp' = NoResp
  /\ UNCHANGED <<now, users, nextId, get, put, sub, job, lastCron, calc, blog, blogs>>

\* DELETE FROM users WHERE id = ?
DelDelete(ok) ==
  /\ del.pc = "delete"
  /\ IF ~ok
       THEN /\ resp' = Reply("delete-user", 500)
            /\ del' = DelIdle
            /\ UNCHANGED users
       ELSE IF users[del.id] = NoRow
         THEN /\ resp' = [Reply("delete-user", 404) EXCEPT !.id = del.id]
              /\ del' = DelIdle
              /\ UNCHANGED users
         ELSE /\ users' = [users EXCEPT ![del.id] = NoRow]
              /\ del' = [del EXCEPT !.pc = "mail"]
              /\ resp' = NoResp
  /\ UNCHANGED <<now, nextId, get, put, sub, job, lastCron, calc, blog, blogs>>

DelMail(sent) ==
  /\ del.pc = "mail"
  /\ resp' = [Reply("delete-user", CodeAfterMail(sent)) EXCEPT
                !.id = del.id,
                !.mail = [to |-> del.email,
                          subject |-> "Your Subscription is Cancelled",
                          sent |-> sent]]
  /\ del' = DelIdle
  /\ UNCHANGED <<now, users, nextId, get, put, sub, job, lastCron, calc, blog, blogs>>


(***************************************************************************)
(* The blog routes behind verifyToken.  Each action is one database        *)
(* statement with its callback; ok = FALSE is a database error.            *)
(***************************************************************************)
BlogFail(code) ==
  /\ resp' = Reply(blog.route, code)
  /\ blog' = BlogIdle
  /\ UNCHANGED blogs

BlogStep(pc) ==
  /\ blog' = [blog EXCEPT !.pc = pc]
  /\ resp' = NoResp

BlogDone ==
  /\ blog' = BlogIdle
  /\ resp' = [Reply(blog.route, 200) EXCEPT !.id = blog.id]

BlogStart(tok, route, id, title, body) ==
  /\ blog.pc = "idle"
  /\ InFlight < MaxInFlight
  /\ route = "add-blog" =>
       \/ blogs.next \in BlogIds
       \/ \E b \in Present(blogs.rows) : blogs.rows[b].title = title
  /\ IF VerifyToken(tok) # 0
       THEN /\ resp' = [Reply(route, VerifyToken(tok)) EXCEPT !.tok = tok]
            /\ UNCHANGED blog
       ELSE IF route = "add-blog" /\ (title = "" \/ body.keep \cup body.new = {})
         THEN /\ resp' = [Reply(route, 400) EXCEPT !.tok = tok]
              /\ UNCHANGED blog
         ELSE /\ blog' = [pc |-> IF route = "add-blog" THEN "check"
                                 ELSE IF route = "update-blog" THEN "update"
                                 ELSE "delete-sections",
                          tok |-> tok, route |-> route, id |-> id, title |-> title,
                          keep |-> body.keep, new |-> body.new]
              /\ resp' = NoResp
  /\ UNCHANGED <<now, users, nextId, get, put, sub, del, job, lastCron, calc, blogs>>

\* POST /add-blog: SELECT id FROM blogs WHERE title = ?
BlogCheckTitle(ok) ==
  /\ blog.pc = "check"
  /\ IF ~ok THEN BlogFail(500)
     ELSE IF \E b \in Present(blogs.rows) : blogs.rows[b].title = blog.title
       THEN BlogFail(409)
       ELSE BlogStep("insert") /\ UNCHANGED blogs
  /\ UNCHANGED <<now, users, nextId, get, put, sub, del, job, lastCron, calc>>

\* INSERT INTO blogs (title, image_url, intro)
BlogInsert(ok) ==
  /\ blog.pc = "insert"
  /\ IF ~ok THEN BlogFail(500)
     ELSE /\ blogs' = [blogs EXCEPT !.rows[blogs.next] = [title |-> blog.title],
                                    !.next = @ + 1]
          /\ blog' = [blog EXCEPT !.pc = "insert-sections", !.id = blogs.next]
          /\ resp' = NoResp
  /\ UNCHANGED <<now, users, nextId, get, put, sub, del, job, lastCron, calc>>

\* INSERT INTO blog_sections (blog_id, heading, content) VALUES ?
BlogInsertSections(ok) ==
  /\ blog.pc = "insert-sections"
  /\ IF ~ok THEN BlogFail(500)
     ELSE /\ blogs' = [blogs EXCEPT !.sections[blog.id] = @ \cup blog.keep \cup blog.new]
          /\ BlogDone
  /\ UNCHANGED <<now, users, nextId, get, put, sub, del, job, lastCron, calc>>

\* PUT /update-blog/:id: UPDATE blogs SET title = ?, ... WHERE id = ?
BlogUpdateRow(ok) ==
  /\ blog.pc = "update"
  /\ IF ~ok THEN BlogFail(500)
     ELSE /\ blogs' = IF blogs.rows[blog.id] = NoRow THEN blogs
                      ELSE [blogs EXCEPT !.rows[blog.id] = [title |-> blog.title]]
          /\ BlogStep("prune")
  /\ UNCHANGED <<now, users, nextId, get, put, sub, del, job, lastCron, calc>>

\* DELETE FROM blog_sections WHERE blog_id = ? [AND id NOT IN (?)]
BlogPrune(ok) ==
  /\ blog.pc = "prune"
  /\ IF ~ok THEN BlogFail(500)
     ELSE /\ blogs' = [blogs EXCEPT !.sections[blog.id] = @ \cap blog.keep]
          /\ BlogStep("insert-new")
  /\ UNCHANGED <<now, users, nextId, get, put, sub, del, job, lastCron, calc>>

\* insertNew: no statement when there is no new section
BlogInsertNew(ok) ==
  /\ blog.pc = "insert-new"
  /\ IF blog.new # {} /\ ~ok THEN BlogFail(500)
     ELSE /\ blogs' = [blogs EXCEPT !.sections[blog.id] = @ \cup blog.new]
          /\ BlogStep("upsert")
  /\ UNCHANGED <<now, users, nextId, get, put, sub, del, job, lastCron, calc>>

\* upsertExisting: INSERT ... ON DUPLICATE KEY UPDATE
BlogUpsert(ok) ==
  /\ blog.pc = "upsert"
  /\ IF blog.keep # {} /\ ~ok THEN BlogFail(500)
     ELSE /\ blogs' = [blogs EXCEPT !.sections[blog.id] = @ \cup blog.keep]
          /\ BlogDone
  /\ UNCHANGED <<now, users, nextId, get, put, sub, del, job, lastCron, calc>>

\* DELETE /delete-blog/:id: DELETE FROM blog_sections WHERE blog_id = ?
BlogDeleteSections(ok) ==
  /\ blog.pc = "delete-sections"
  /\ IF ~ok THEN BlogFail(500)
     ELSE /\ blogs' = [blogs EXCEPT !.sections[blog.id] = {}]
          /\ BlogStep("delete")
  /\ UNCHANGED <<now, users, nextId, get, put, sub, del, job, lastCron, calc>>

\* DELETE FROM blogs WHERE id = ?
BlogDeleteRow(ok) ==
  /\ blog.pc = "delete"
  /\ IF ~ok THEN BlogFail(500)
     ELSE /\ blogs' = [blogs EXCEPT !.rows[blog.id] = NoRow]
          /\ BlogDone
  /\ UNCHANGED <<now, users, nextId, get, put, sub, del, job, lastCron, calc>>

(***************************************************************************)
(* sendReminderEmails, fired by cron.schedule("0 9 * * *").                *)
(***************************************************************************)
RECURSIVE AscendingSeq(_)
AscendingSeq(S) ==
  IF S = {} THEN <<>>
  ELSE LET m == CHOOSE x \in S : \A y \in S : x <= y
       IN  <<m>> \o AscendingSeq(S \ {m})

\* SELECT id, name, email, plan, phone, updated_at FROM users
\*   WHERE invoice_status = 'paid'
PaidRows(table) ==
  LET ids == AscendingSeq({id \in Present(table) : table[id].status = "paid"})
  IN  [k \in 1..Len(ids) |->
         [id |-> ids[k], plan |-> table[ids[k]].plan,
          updated_at |-> table[ids[k]].updated_at, email |-> table[ids[k]].email]]

CronDue == TimeInDay(now) = CronSlot /\ lastCron < DayOf(now)

CronFire ==
  /\ CronDue
  /\ job.pc = "idle"
  /\ job' = [JobIdle EXCEPT !.pc = "query"]
  /\ lastCron' = DayOf(now)
  /\ resp' = NoResp
  /\ UNCHANGED <<now, users, nextId, get, put, sub, del, calc, blog, blogs>>

JobQuery(ok) ==
  /\ job.pc = "query"
  /\ job' = IF ok
              THEN [JobIdle EXCEPT !.pc = "loop", !.rows = PaidRows(users), !.i = 1,
                                   !.today = StartOfDay(now)]
              ELSE JobIdle
  /\ resp' = NoResp
  /\ UNCHANGED <<now, users, nextId, get, put, sub, del, lastCron, calc, blog, blogs>>

\* where the for loop goes after the try/catch around sendMail
IndexAfterSendAbort(i, n, sent) == IF sent THEN i + 1 ELSE n + 1
IndexAfterSend(i, n, sent) == i + 1

\* the users table after one iteration of the loop: the body computes an end
\* date, sends a mail and logs, and issues no statement against the table
TableAfterReminderExpiring(table, user, today) ==
  [id \in DOMAIN table |->
     IF id = user.id /\ table[id] # NoRow /\ HasLapsed(table[id], today)
       THEN DbSetStatus(table[id], "pending", today)
       ELSE table[id]]
TableAfterReminder(table, user, today) == table

\* one iteration of `for (const user of users)`
JobIter(sent) ==
  /\ job.pc = "loop"
  /\ job.i <= Len(job.rows)
  /\ LET user == job.rows[job.i]
     IN  /\ IF ReminderDue(user, job.today)
               THEN job' = [job EXCEPT
                              !.upcoming = @ \cup {user.id},
                              !.attempted = @ \cup {user.id},
                              !.failed = IF sent THEN @ ELSE @ \cup {user.id},
                              !.i = IndexAfterSend(job.i, Len(job.rows), sent)]
               ELSE job' = [job EXCEPT !.i = @ + 1]
         /\ users' = TableAfterReminder(users, user, job.today)
  /\ resp' = NoResp
  /\ UNCHANGED <<now, nextId, get, put, sub, del, lastCron, calc, blog, blogs>>

\* the summary mail to the operator, after the loop
JobSummary(sent) ==
  /\ job.pc = "loop"
  /\ job.i > Len(job.rows)
  /\ resp' = [Reply("reminder-job", 0) EXCEPT
                !.users = [job EXCEPT
                             !.pc = "done",
                             !.summary = IF job.upcoming = {} THEN "none"
                                         ELSE IF sent THEN "sent" ELSE "failed"],
                !.today = job.today]
  /\ job' = JobIdle
  /\ UNCHANGED <<now, users, nextId, get, put, sub, del, lastCron, calc, blog, blogs>>

(***************************************************************************)
(* The clock.                                                              *)
(***************************************************************************)
Tick ==
  /\ now < StartTime + MaxTicks
  /\ now' = now + 1
  /\ resp' = NoResp
  /\ UNCHANGED <<users, nextId, get, put, sub, del, job, lastCron, calc, blog, blogs>>

(***************************************************************************)
(* The system: the table holds the subscribers of earlier days.            *)
(***************************************************************************)
\* paid on January 31st, and signed up for a trial a week before StartDay
SeedPaid(k) ==
  DbInsertRow(Email(k), Phone(k), PlanMonthly, "paid",
              MakeDay(2024, 0, 31) * SlotsPerDay + SlotsPerDay - 1)
SeedTrial(k) ==
  DbInsertRow(Email(k), Phone(k), FreeTrial, "Free",
              (StartDay - 7) * SlotsPerDay + SlotsPerDay - 1)

TableOf(rows) == [id \in Ids |-> IF id <= Len(rows) THEN rows[id] ELSE NoRow]

Init ==
  /\ now = StartTime
  /\ \E rows \in {<<>>, <<SeedPaid(1)>>, <<SeedTrial(1)>>} :
       /\ users = TableOf(rows)
       /\ nextId = Len(rows) + 1
  /\ get = GetIdle
  /\ put = PutIdle
  /\ sub = SubsIdle(1)
  /\ del = DelIdle
  /\ job = JobIdle
  /\ lastCron = StartDay - 1
  /\ resp = NoResp
  /\ calc = NoCalc
  /\ blog = BlogIdle
  /\ blogs = NoBlogs

Next ==
  \/ \E tok \in Tokens : GetStart(tok)
  \/ \E ok \in BOOLEAN : GetScan(ok)
  \/ \E ok \in BOOLEAN : GetUpdate(ok)
  \/ \E ok \in BOOLEAN : GetRequery(ok)
  \/ \E tok \in Tokens, id \in DOMAIN users, status \in StatusInputs : PutStart(tok, id, status)
  \/ \E ok \in BOOLEAN : PutSelect(ok)
  \/ \E ok \in BOOLEAN : PutUpdate(ok)
  \/ \E sent \in BOOLEAN : PutMail(sent)
  \/ \E s \in DOMAIN sub, wellFormed \in BOOLEAN, c \in Contacts, plan \in SignupPlans :
       SubStart(s, wellFormed, c[1], c[2], plan)
  \/ \E s \in DOMAIN sub, ok \in BOOLEAN : SubCheck(s, ok)
  \/ \E s \in DOMAIN sub, ok \in BOOLEAN : SubInsert(s, ok)
  \/ \E s \in DOMAIN sub, sent \in BOOLEAN : SubMail(s, sent)
  \/ \E tok \in Tokens, id \in DOMAIN users : DelStart(tok, id)
  \/ \E ok \in BOOLEAN : DelSelect(ok)
  \/ \E ok \in BOOLEAN : DelDelete(ok)
  \/ \E sent \in BOOLEAN : DelMail(sent)
  \/ CronFire
  \/ \E ok \in BOOLEAN : JobQuery(ok)
  \/ \E sent \in BOOLEAN : JobIter(sent)
  \/ \E sent \in BOOLEAN : JobSummary(sent)
  \/ ~CronDue /\ Tick

\* the schedule fires in its slot of every day before the clock leaves that slot
Spec == Init /\ [][Next]_vars


(***************************************************************************)
(* Listing and status updates alone, over subscribers of earlier days.     *)
(***************************************************************************)
InitExpiry ==
  /\ now = StartTime
  /\ \E kind \in [Ids -> {"paid", "trial"}] :
       users = [k \in Ids |-> IF kind[k] = "paid" THEN SeedPaid(k) ELSE SeedTrial(k)]
  /\ nextId = MaxUsers + 1
  /\ get = GetIdle
  /\ put = PutIdle
  /\ sub = SubsIdle(1)
  /\ del = DelIdle
  /\ job = JobIdle
  /\ lastCron = StartDay
  /\ resp = NoResp
  /\ calc = NoCalc
  /\ blog = BlogIdle
  /\ blogs = NoBlogs

NextExpiry ==
  \/ \E tok \in Tokens : GetStart(tok)
  \/ \E ok \in BOOLEAN : GetScan(ok)
  \/ \E ok \in BOOLEAN : GetUpdate(ok)
  \/ \E ok \in BOOLEAN : GetRequery(ok)
  \/ \E tok \in Tokens, id \in DOMAIN users, status \in StatusInputs :
       PutStart(tok, id, status)
  \/ \E ok \in BOOLEAN : PutSelect(ok)
  \/ \E ok \in BOOLEAN : PutUpdate(ok)
  \/ \E sent \in BOOLEAN : PutMail(sent)
  \/ Tick

SpecExpiry == InitExpiry /\ [][NextExpiry]_vars

(***************************************************************************)
(* Listing, status update, deletion and the reminder job, over one         *)
(* subscriber of an earlier day, from the morning of the due date of the   *)
(* one paid on January 31st: the schedule fires on that day and the next.  *)
(***************************************************************************)
InitLazy ==
  /\ now = StartTime
  /\ \E rows \in {<<SeedPaid(1)>>, <<SeedTrial(1)>>} :
       /\ users = TableOf(rows)
       /\ nextId = Len(rows) + 1
  /\ get = GetIdle
  /\ put = PutIdle
  /\ sub = SubsIdle(1)
  /\ del = DelIdle
  /\ job = JobIdle
  /\ lastCron = StartDay - 1
  /\ resp = NoResp
  /\ calc = NoCalc
  /\ blog = BlogIdle
  /\ blogs = NoBlogs

NextLazy ==
  \/ \E tok \in Tokens : GetStart(tok)
  \/ \E ok \in BOOLEAN : GetScan(ok)
  \/ \E ok \in BOOLEAN : GetUpdate(ok)
  \/ \E ok \in BOOLEAN : GetRequery(ok)
  \/ \E tok \in Tokens, id \in DOMAIN users, status \in StatusInputs :
       PutStart(tok, id, status)
  \/ \E ok \in BOOLEAN : PutSelect(ok)
  \/ \E ok \in BOOLEAN : PutUpdate(ok)
  \/ \E sent \in BOOLEAN : PutMail(sent)
  \/ \E tok \in Tokens, id \in DOMAIN users : DelStart(tok, id)
  \/ \E ok \in BOOLEAN : DelSelect(ok)
  \/ \E ok \in BOOLEAN : DelDelete(ok)
  \/ \E sent \in BOOLEAN : DelMail(sent)
  \/ CronFire
  \/ \E ok \in BOOLEAN : JobQuery(ok)
  \/ \E sent \in BOOLEAN : JobIter(sent)
  \/ \E sent \in BOOLEAN : JobSummary(sent)
  \/ ~CronDue /\ Tick

SpecLazy == InitLazy /\ [][NextLazy]_vars

(***************************************************************************)
(* Listing alone, over one subscriber of any status and plan, changed on   *)
(* one of the days around the end of January 2024 and listed up to         *)
(* MaxAhead days later.                                                    *)
(***************************************************************************)
LapseStartSpan == 2
MaxAhead == 370

RowStatuses == {"Free", "pending", "paid"}
LapseFirstDay == MakeDay(2024, 0, 30)

InitLapse ==
  /\ \E status \in RowStatuses, plan \in AllPlans,
        day \in LapseFirstDay..(LapseFirstDay + LapseStartSpan),
        slot \in 0..(SlotsPerDay - 1), ahead \in 0..MaxAhead,
        nowSlot \in 0..(SlotsPerDay - 1) :
       /\ users = [id \in {1} |->
                     DbInsertRow(Email(1), Phone(1), plan, status,
                                 day * SlotsPerDay + slot)]
       /\ now = (day + ahead) * SlotsPerDay + nowSlot
       /\ now >= day * SlotsPerDay + slot
  /\ nextId = 2
  /\ get = GetIdle
  /\ put = PutIdle
  /\ sub = SubsIdle(1)
  /\ del = DelIdle
  /\ job = JobIdle
  /\ lastCron = DayOf(now)
  /\ resp = NoResp
  /\ calc = NoCalc
  /\ blog = BlogIdle
  /\ blogs = NoBlogs

NextLapse ==
  \/ \E tok \in Tokens : GetStart(tok)
  \/ \E ok \in BOOLEAN : GetScan(ok)
  \/ \E ok \in BOOLEAN : GetUpdate(ok)
  \/ \E ok \in BOOLEAN : GetRequery(ok)

SpecLapse == InitLapse /\ [][NextLapse]_vars

(***************************************************************************)
(* Signup alone.                                                           *)
(***************************************************************************)
NextSignup ==
  \/ \E s \in DOMAIN sub, wellFormed \in BOOLEAN, c \in Contacts, plan \in SignupPlans :
       SubStart(s, wellFormed, c[1], c[2], plan)
  \/ \E s \in DOMAIN sub, ok \in BOOLEAN : SubCheck(s, ok)
  \/ \E s \in DOMAIN sub, ok \in BOOLEAN : SubInsert(s, ok)
  \/ \E s \in DOMAIN sub, sent \in BOOLEAN : SubMail(s, sent)
  \/ Tick

SpecSignup == Init /\ [][NextSignup]_vars


(***************************************************************************)
(* Signup alone, on MaxSignups connections at once, into an empty table    *)
(* with room for one subscriber per connection.                            *)
(***************************************************************************)
MaxSignups == 2

InitRace ==
  /\ now = StartTime
  /\ users = [id \in 1..MaxSignups |-> NoRow]
  /\ nextId = 1
  /\ get = GetIdle
  /\ put = PutIdle
  /\ sub = SubsIdle(MaxSignups)
  /\ del = DelIdle
  /\ job = JobIdle
  /\ lastCron = StartDay
  /\ resp = NoResp
  /\ calc = NoCalc
  /\ blog = BlogIdle
  /\ blogs = NoBlogs

NextRace ==
  \/ \E s \in DOMAIN sub, wellFormed \in BOOLEAN, c \in Contacts, plan \in SignupPlans :
       SubStart(s, wellFormed, c[1], c[2], plan)
  \/ \E s \in DOMAIN sub, ok \in BOOLEAN : SubCheck(s, ok)
  \/ \E s \in DOMAIN sub, ok \in BOOLEAN : SubInsert(s, ok)
  \/ \E s \in DOMAIN sub, sent \in BOOLEAN : SubMail(s, sent)

SpecRace == InitRace /\ [][NextRace]_vars

(***************************************************************************)
(* The routes behind verifyToken, on the day after the due date of the     *)
(* subscriber paid on January 31st, with one blog or none.  Requests with  *)
(* a valid token are made one at a time.                                   *)
(***************************************************************************)
InitAuth ==
  /\ now = StartTime + SlotsPerDay
  /\ \E rows \in {<<SeedPaid(1)>>, <<SeedTrial(1)>>} :
       /\ users = TableOf(rows)
       /\ nextId = Len(rows) + 1
  /\ get = GetIdle
  /\ put = PutIdle
  /\ sub = SubsIdle(1)
  /\ del = DelIdle
  /\ job = JobIdle
  /\ lastCron = StartDay + 1
  /\ resp = NoResp
  /\ calc = NoCalc
  /\ blog = BlogIdle
  /\ blogs \in {NoBlogs, OneBlog}

\* the one operator who holds a token waits for the answer to a request
\* before making the next; requests of others arrive at any moment
OperatorAtRest(tok) == tok = "good" => InFlight = 0

NextAuth ==
  \/ \E tok \in Tokens : OperatorAtRest(tok) /\ GetStart(tok)
  \/ \E ok \in BOOLEAN : GetScan(ok)
  \/ \E ok \in BOOLEAN : GetUpdate(ok)
  \/ \E ok \in BOOLEAN : GetRequery(ok)
  \/ \E tok \in Tokens, id \in DOMAIN users, status \in StatusInputs :
       OperatorAtRest(tok) /\ PutStart(tok, id, status)
  \/ \E ok \in BOOLEAN : PutSelect(ok)
  \/ \E ok \in BOOLEAN : PutUpdate(ok)
  \/ \E sent \in BOOLEAN : PutMail(sent)
  \/ \E tok \in Tokens, id \in DOMAIN users : OperatorAtRest(tok) /\ DelStart(tok, id)
  \/ \E ok \in BOOLEAN : DelSelect(ok)
  \/ \E ok \in BOOLEAN : DelDelete(ok)
  \/ \E sent \in BOOLEAN : DelMail(sent)
  \/ \E tok \in Tokens, route \in BlogRoutes, id \in BlogIds, title \in BlogTitles,
        body \in BlogBodies :
       OperatorAtRest(tok) /\ BlogStart(tok, route, id, title, body)
  \/ \E ok \in BOOLEAN : BlogCheckTitle(ok)
  \/ \E ok \in BOOLEAN : BlogInsert(ok)
  \/ \E ok \in BOOLEAN : BlogInsertSections(ok)
  \/ \E ok \in BOOLEAN : BlogUpdateRow(ok)
  \/ \E ok \in BOOLEAN : BlogPrune(ok)
  \/ \E ok \in BOOLEAN : BlogInsertNew(ok)
  \/ \E ok \in BOOLEAN : BlogUpsert(ok)
  \/ \E ok \in BOOLEAN : BlogDeleteSections(ok)
  \/ \E ok \in BOOLEAN : BlogDeleteRow(ok)

SpecAuth == InitAuth /\ [][NextAuth]_vars

(***************************************************************************)
(* Signup, status update and deletion, without listing, job or clock.      *)
(***************************************************************************)
NextMail ==
  \/ \E s \in DOMAIN sub, wellFormed \in BOOLEAN, c \in Contacts, plan \in SignupPlans :
       SubStart(s, wellFormed, c[1], c[2], plan)
  \/ \E s \in DOMAIN sub, ok \in BOOLEAN : SubCheck(s, ok)
  \/ \E s \in DOMAIN sub, ok \in BOOLEAN : SubInsert(s, ok)
  \/ \E s \in DOMAIN sub, sent \in BOOLEAN : SubMail(s, sent)
  \/ \E tok \in Tokens, id \in DOMAIN users, status \in StatusInputs :
       PutStart(tok, id, status)
  \/ \E ok \in BOOLEAN : PutSelect(ok)
  \/ \E ok \in BOOLEAN : PutUpdate(ok)
  \/ \E sent \in BOOLEAN : PutMail(sent)
  \/ \E tok \in Tokens, id \in DOMAIN users : DelStart(tok, id)
  \/ \E ok \in BOOLEAN : DelSelect(ok)
  \/ \E ok \in BOOLEAN : DelDelete(ok)
  \/ \E sent \in BOOLEAN : DelMail(sent)

SpecMail == Init /\ [][NextMail]_vars

(***************************************************************************)
(* One run of the reminder job over SweepRows subscribers.  The event loop *)
(* runs every callback that is ready: a query returns or fails, a send     *)
(* resolves or rejects.                                                    *)
(***************************************************************************)
SweepRows == 3

\* paid so that the job's end date is two days after StartDay, or later
SweepDue(k) ==
  DbInsertRow(Email(k), Phone(k), PlanMonthly, "paid",
              MakeDay(2024, 1, 2) * SlotsPerDay + SlotsPerDay - 1)
SweepLater(k) ==
  DbInsertRow(Email(k), Phone(k), PlanYearly, "paid",
              MakeDay(2024, 1, 10) * SlotsPerDay)
SweepPending(k) ==
  DbInsertRow(Email(k), Phone(k), Plan6Month, "pending",
              MakeDay(2024, 1, 2) * SlotsPerDay)

InitSweep ==
  /\ now = StartTime
  /\ \E kind \in [1..SweepRows -> {"due", "later", "pending"}] :
       users = [k \in 1..SweepRows |->
                  IF kind[k] = "due" THEN SweepDue(k)
                  ELSE IF kind[k] = "later" THEN SweepLater(k)
                  ELSE SweepPending(k)]
  /\ nextId = SweepRows + 1
  /\ get = GetIdle
  /\ put = PutIdle
  /\ sub = SubsIdle(1)
  /\ del = DelIdle
  /\ job = JobIdle
  /\ lastCron = StartDay - 1
  /\ resp = NoResp
  /\ calc = NoCalc
  /\ blog = BlogIdle
  /\ blogs = NoBlogs

NextSweep ==
  \/ CronFire
  \/ \E ok \in BOOLEAN : JobQuery(ok)
  \/ \E sent \in BOOLEAN : JobIter(sent)
  \/ \E sent \in BOOLEAN : JobSummary(sent)

SpecSweep == InitSweep /\ [][NextSweep]_vars /\ WF_vars(NextSweep)

(***************************************************************************)
(* The end date of one subscription, paid at `start`, as the listing, the  *)
(* status update (whose clock reads `start`) and the reminder job derive   *)
(* it, each as a day.                                                      *)
(***************************************************************************)
DateSpan == 60
DatesFirstDay == MakeDay(2024, 0, 1)

Derive(plan, start) ==
  LET user == DbInsertRow(Email(1), Phone(1), plan, "paid", start)
  IN  /\ calc = NoCalc
  /\ blog = BlogIdle
  /\ blogs = NoBlogs
      /\ calc' = [plan |-> plan,
                  start |-> start,
                  listing |-> IF ListingDueDate(user) = NoDate THEN NoDate
                              ELSE DayOf(ListingDueDate(user)),
                  update |-> DayOf(ValidityEnd("paid", plan, start)),
                  reminder |-> DayOf(ReminderEndDate(user))]
      /\ UNCHANGED <<now, users, nextId, get, put, sub, del, job, lastCron, resp,
                     blog, blogs>>

InitDates ==
  /\ now = StartTime
  /\ users = TableOf(<<>>)
  /\ nextId = 1
  /\ get = GetIdle
  /\ put = PutIdle
  /\ sub = SubsIdle(1)
  /\ del = DelIdle
  /\ job = JobIdle
  /\ lastCron = StartDay
  /\ resp = NoResp
  /\ calc = NoCalc
  /\ blog = BlogIdle
  /\ blogs = NoBlogs

NextDates ==
  \E plan \in AllPlans, day \in DatesFirstDay..(DatesFirstDay + DateSpan),
     slot \in 0..(SlotsPerDay - 1) :
    Derive(plan, day * SlotsPerDay + slot)

SpecDates == InitDates /\ [][NextDates]_vars

(***************************************************************************)
(* The due date as the specification states it, in whole days: the day of  *)
(* the last status change plus the plan's duration for a paid subscriber   *)
(* of a Monthly, 6-Month or Yearly plan, plus 7 days for a Free subscriber *)
(* of the plan "Free Trial", and none otherwise.                           *)
(***************************************************************************)
ClaimHasDueDate(user) ==
  \/ /\ user.status = "paid"
     /\ \/ Includes(user.plan, KwMonthly)
        \/ Includes(user.plan, Kw6Month)
        \/ Includes(user.plan, KwYearly)
  \/ user.status = "Free" /\ user.plan = FreeTrial

ClaimDueDay(user) ==
  LET start == DayOf(user.updated_at) * SlotsPerDay
  IN  IF user.status = "Free" THEN DayOf(user.updated_at) + 7
      ELSE IF Includes(user.plan, KwMonthly) THEN DayOf(MomentAddMonths(start, 1))
      ELSE IF Includes(user.plan, Kw6Month) THEN DayOf(MomentAddMonths(start, 6))
      ELSE DayOf(MomentAddMonths(start, 12))

ClaimLapsed(user, today) ==
  ClaimHasDueDate(user) /\ ClaimDueDay(user) < today

GotUsers == resp.route = "get-users" /\ resp.code = 200

(***************************************************************************)
(* C1: every 200 response of GET /get-users shows post-lapse state: no     *)
(* subscriber of the returned list is "paid" or "Free" while its due date  *)
(* is strictly before the day the request took as today.                   *)
(***************************************************************************)
ListingReflectsLapse ==
  GotUsers =>
    \A id \in Present(resp.users) :
      ~(/\ resp.users[id].status \in {"paid", "Free"}
        /\ ClaimLapsed(resp.users[id], DayOf(resp.today)))

\* a listing that returns a monthly subscriber, paid on January 31st, as
\* "pending" since the day of the request
ListingAfterDemotion ==
  /\ GotUsers
  /\ \E id \in Present(resp.users) :
       /\ resp.users[id].plan = PlanMonthly
       /\ resp.users[id].status = "pending"
       /\ DayOf(resp.users[id].updated_at) = DayOf(resp.today)
       /\ DayOf(resp.today) > DayOf(MomentAddMonths(SeedPaid(id).updated_at, 1))

(***************************************************************************)
(* C2: whenever the bulk update of GET /get-users sets a subscriber to     *)
(* "pending", that subscriber is "paid" or "Free" immediately before the   *)
(* write and its due date is strictly before today, whatever               *)
(* PUT /update-status did to it in between.                                *)
(***************************************************************************)
WriteFindsLapsedRow ==
  (get.pc = "update" /\ get'.pc = "requery") =>
    \A id \in Present(users) :
      users'[id] # users[id] =>
        /\ users[id].status \in {"paid", "Free"}
        /\ ClaimLapsed(users[id], DayOf(get.currentDate))

ExpiryWriteOnlyOnLapse == [][WriteFindsLapsedRow]_vars

(***************************************************************************)
(* C3: a subscriber created by POST /submit-user is "Free" exactly when    *)
(* its plan is "Free Trial" and "pending" otherwise, never "paid".         *)
(***************************************************************************)
CreatedWithStatusOfPlan ==
  \A id \in DOMAIN users :
    (users[id] = NoRow /\ users'[id] # NoRow) =>
      /\ (users'[id].status = "Free") <=> (users'[id].plan = FreeTrial)
      /\ users'[id].status \in {"Free", "pending"}

SignupStatusByPlan == [][CreatedWithStatusOfPlan]_vars

\* a signup for a plan that contains, and is not, "Free Trial" was answered 200
SignedUpForTrialLikePlan ==
  /\ resp.route = "submit-user"
  /\ resp.code = 200
  /\ users[resp.id] # NoRow
  /\ users[resp.id].plan = PlanFreeTrialVip
  /\ users[resp.id].status = "pending"

(***************************************************************************)
(* C4: GET /get-users demotes a subscriber that has a due date exactly     *)
(* when the due date is strictly before today; on the due date itself it   *)
(* is not demoted.                                                         *)
(***************************************************************************)
ScanCollectsThePast ==
  (get.pc = "query" /\ resp'.code # 500) =>
    LET lapsed == {id \in Present(users) : ClaimLapsed(users[id], DayOf(now))}
    IN  IF lapsed = {}
          THEN get'.pc = "idle" /\ resp'.code = 200 /\ resp'.users = users
          ELSE get'.pc = "update" /\ get'.updates = lapsed

UpdateDemotesTheCollected ==
  IF get.pc = "update" /\ get'.pc = "requery"
    THEN \A id \in Present(users) :
           IF id \in get.updates
             THEN users'[id].status = "pending"
             ELSE users'[id] = users[id]
    ELSE users' = users

LapseIsStrictlyBefore ==
  [][ScanCollectsThePast /\ UpdateDemotesTheCollected]_vars

\* a trial subscriber, signed up late on day d, is listed early on day d + 7
\* and is still "Free"
TrialListedOnDueDay ==
  /\ GotUsers
  /\ \E id \in Present(resp.users) :
       /\ resp.users[id].status = "Free"
       /\ resp.users[id].plan = FreeTrial
       /\ DayOf(resp.today) = DayOf(resp.users[id].updated_at) + 7
       /\ TimeInDay(resp.users[id].updated_at) > TimeInDay(now)

(***************************************************************************)
(* C5: only a paid subscriber of a Monthly, 6-Month or Yearly plan and a   *)
(* Free subscriber of the plan "Free Trial" have a due date; a listing     *)
(* never collects, and never changes, a subscriber of another status and   *)
(* plan, however long ago it was last changed.                             *)
(***************************************************************************)
DueDateOnlyAsStated ==
  \A id \in Present(users) :
    /\ (ListingDueDate(users[id]) # NoDate) <=> ClaimHasDueDate(users[id])
    /\ ~ClaimHasDueDate(users[id]) => users'[id] = users[id]

ScanCollectsOnlyDated ==
  get.pc = "query" => \A id \in get'.updates : ClaimHasDueDate(users[id])

NoDueDateNoDemotion ==
  [][DueDateOnlyAsStated /\ ScanCollectsOnlyDated]_vars

\* a Free subscriber of a monthly plan is listed, still "Free", a year later
FreeMonthlyListedAYearLater ==
  /\ GotUsers
  /\ \E id \in Present(resp.users) :
       /\ resp.users[id].status = "Free"
       /\ resp.users[id].plan = PlanMonthly
       /\ DayOf(resp.today) >= DayOf(resp.users[id].updated_at) + 365


(***************************************************************************)
(* C6: a run of the reminder job attempts a reminder for a paid subscriber *)
(* exactly when the subscriber's due date is two days after the day of the *)
(* run, and never for a plan without a due date.                           *)
(***************************************************************************)
JobEnded == resp.route = "reminder-job"

AsPaid(row) == [status |-> "paid", plan |-> row.plan, updated_at |-> row.updated_at]

ReminderIffDueInTwoDays ==
  JobEnded =>
    \A k \in 1..Len(resp.users.rows) :
      LET row == resp.users.rows[k]
      IN  (row.id \in resp.users.attempted) <=>
            /\ ClaimHasDueDate(AsPaid(row))
            /\ ClaimDueDay(AsPaid(row)) = DayOf(resp.today) + 2

(***************************************************************************)
(* C7: the listing, the status update and the reminder job derive the same *)
(* end date for every plan that has a duration and every start day.        *)
(***************************************************************************)
OneCalendarPolicy ==
  (calc # NoCalc /\ calc.listing # NoDate) =>
    (calc.listing = calc.update /\ calc.update = calc.reminder)

(***************************************************************************)
(* C8: a run of the reminder job that has read the paid subscribers ends,  *)
(* having evaluated every one of them and attempted a send for every one   *)
(* whose reminder is due, whichever sends failed.                          *)
(***************************************************************************)
SweepDone ==
  /\ JobEnded
  /\ resp.users.i = Len(resp.users.rows) + 1
  /\ resp.users.attempted =
       {resp.users.rows[k].id : k \in
          {n \in 1..Len(resp.users.rows) :
             ReminderDue(resp.users.rows[n], resp.users.today)}}

SweepCompletes == (job.pc = "loop") ~> SweepDone

\* the run attempted a send after an earlier send of the same run had failed
SweepWentOnAfterFailure ==
  /\ SweepDone
  /\ \E a \in resp.users.failed, b \in resp.users.attempted : a < b

(***************************************************************************)
(* C9: the outcome of the mail send changes neither the response nor the   *)
(* table: the step that follows the send of POST /submit-user,             *)
(* PUT /update-status and DELETE /delete-user answers 200, leaves the      *)
(* table as it is and ends the request without another send.               *)
(***************************************************************************)
AfterSend(req, req2, route) ==
  (req.pc = "mail" /\ req2 # req) =>
    /\ req2.pc = "idle"
    /\ resp'.route = route
    /\ resp'.code = 200
    /\ users' = users

MailFailureIsSilent ==
  [][/\ \A s \in DOMAIN sub : AfterSend(sub[s], sub'[s], "submit-user")
     /\ AfterSend(put, put', "update-status")
     /\ AfterSend(del, del', "delete-user")]_vars

\* the confirmation mail failed, the answer is 200 and the subscriber is paid
PaidAndAnsweredDespiteFailedMail ==
  /\ resp.route = "update-status"
  /\ resp.code = 200
  /\ resp.mail.subject = "Your Payment is Confirmed!"
  /\ ~resp.mail.sent
  /\ users[resp.id] # NoRow
  /\ users[resp.id].status = "paid"

(***************************************************************************)
(* C10: the invoice_status of every subscriber is "Free", "pending" or     *)
(* "paid".                                                                 *)
(***************************************************************************)
StatusIsCanonical ==
  \A id \in Present(users) : users[id].status \in {"Free", "pending", "paid"}

(***************************************************************************)
(* C11: expiry is lazy.  No step of the reminder job, no firing of the     *)
(* schedule and no passing of time changes a stored subscriber; a stored   *)
(* subscriber changes only in the bulk update of GET /get-users, in the    *)
(* update of PUT /update-status and in the delete of DELETE /delete-user,  *)
(* so a subscriber whose due date has passed keeps its status until one of *)
(* these occurs.                                                           *)
(***************************************************************************)
JobLeavesTableAlone ==
  (job' # job \/ lastCron' # lastCron \/ now' # now) =>
    (users' = users /\ nextId' = nextId)

RowChangesOnlyOnRequest ==
  \A id \in Present(users) :
    users'[id] # users[id] =>
      \/ get.pc = "update" /\ get'.pc = "requery" /\ id \in get.updates
      \/ put.pc = "update" /\ put'.pc = "mail" /\ id = put.id
      \/ del.pc = "delete" /\ del'.pc = "mail" /\ id = del.id

ExpiryOnlyOnListing == [][JobLeavesTableAlone /\ RowChangesOnlyOnRequest]_vars

\* a run of the job has ended on a day after the due date of a subscriber
\* that the run has read as paid, and the subscriber is still paid
StillPaidAfterJobPastDue ==
  /\ JobEnded
  /\ \E k \in 1..Len(resp.users.rows) :
       LET id == resp.users.rows[k].id
       IN  /\ users[id] # NoRow
           /\ users[id].status = "paid"
           /\ ClaimLapsed(users[id], DayOf(resp.today))

(***************************************************************************)
(* C12: PUT /update-status calls the mail transport only when the new      *)
(* status is "paid"; for every other accepted status the request never     *)
(* waits on a send and answers without having attempted one.               *)
(***************************************************************************)
StatusMailOnlyForPaid ==
  /\ put.pc = "mail" => put.status = "paid"
  /\ (resp.route = "update-status" /\ resp.mail # NoMail) =>
       resp.mail.subject = StatusMailSubject("paid")

(***************************************************************************)
(* C13: no two stored subscribers have the same e-mail address and no two  *)
(* have the same phone number, whatever POST /submit-user requests were    *)
(* made and however their duplicate checks and inserts interleaved.        *)
(***************************************************************************)
ContactsAreUnique ==
  \A a, b \in Present(users) :
    a # b => /\ users[a].email # users[b].email
             /\ users[a].phone # users[b].phone

(***************************************************************************)
(* C14: a request to a protected route (GET /get-users,                    *)
(* PUT /update-status, DELETE /delete-user, POST /add-blog,                *)
(* PUT /update-blog, DELETE /delete-blog) that carries no token is         *)
(* answered 401 and one whose token fails verification is answered 400;    *)
(* in both cases no handler starts and the tables of subscribers and blogs *)
(* stay as they are, so an unauthenticated listing demotes nobody.         *)
(***************************************************************************)
ProtectedRoutes ==
  {"get-users", "update-status", "delete-user"} \cup BlogRoutes

NoHandlerWithoutToken ==
  /\ get'.pc # "idle" => get'.tok = "good"
  /\ put'.pc # "idle" => put'.tok = "good"
  /\ del'.pc # "idle" => del'.tok = "good"
  /\ blog'.pc # "idle" => blog'.tok = "good"

RejectedUntouched ==
  (resp'.route \in ProtectedRoutes /\ resp'.tok \in {"none", "bad"}) =>
    /\ resp'.code = IF resp'.tok = "none" THEN 401 ELSE 400
    /\ resp'.users = NoBody
    /\ UNCHANGED <<users, nextId, blogs, get, put, del, blog, sub, job>>

UnauthenticatedIsRejected == [][NoHandlerWithoutToken /\ RejectedUntouched]_vars

\* an unauthenticated GET /get-users was answered 401 while a subscriber
\* whose due date has passed is stored as paid
RejectedListingLeftLapsedPaid ==
  /\ resp.route = "get-users"
  /\ resp.tok = "none"
  /\ resp.code = 401
  /\ get.pc = "idle"
  /\ \E id \in Present(users) :
       /\ users[id].status = "paid"
       /\ ClaimLapsed(users[id], DayOf(now))

=============================================================================
